---- MODULE Spec2Model ----
(***************************************************************************)
(* Room registry and message routing of the p2p signaling server           *)
(* (src/unnamed/part_002: tokens, TTL, maxPeers, usageLimit, per-socket    *)
(* token bucket, per-IP connection cap).                                   *)
(*                                                                         *)
(* Time is Date.now() in milliseconds.  Bucket tokens are kept in          *)
(* thousandths of a token, so that elapsed * MSGS_PER_SECOND / 1000 is     *)
(* exact.  A JavaScript value that need not be a number is a record        *)
(* [k, v]: k is "num", "nan", "null", "absent" (undefined) or "str" (a     *)
(* non-numeric string).                                                    *)
(***************************************************************************)
EXTENDS Integers, FiniteSets, Sequences, TLC

\* ------------------------------------------------------------- bounds
\* the client events and clock advances of one run
MaxEvents == 4

\* ------------------------------------------------- program constants
\* process.env.MAX_CONN_PER_IP and process.env.MSGS_PER_SECOND; the model
\* runs the server configured with 2 and 2.
MAX_CONNECTIONS_PER_IP == 2
MSGS_PER_SECOND == 2
CLEAN_INTERVAL_MS == 30000

\* the socket ids socket.io hands out, the room codes genCode returns
Sockets == {1, 2, 3}
Codes == {1, 2}
MaxSockets == Cardinality(Sockets)
MaxRooms == Cardinality(Codes)
NoCode == 0
NoId == 0

\* ------------------------------------------------- JavaScript values
Num(n) == [k |-> "num", v |-> n]
NaN == [k |-> "nan", v |-> 0]
Null == [k |-> "null", v |-> 0]
Absent == [k |-> "absent", v |-> 0]
Junk == [k |-> "str", v |-> 0]
IsNum(x) == x.k = "num"
\* x || d
OrDefault(x, d) == IF x.k = "absent" \/ (x.k = "num" /\ x.v = 0) THEN Num(d) ELSE x
\* parseInt(x, 10) of an integer, or of a string that holds no number
ParseInt(x) == IF x.k = "num" THEN x ELSE NaN
\* Math.max(1, x): NaN if x is NaN
MathMax1(x) == IF x.k = "num" THEN (IF x.v < 1 THEN Num(1) ELSE x) ELSE NaN
\* x * n
Times(x, n) == IF x.k = "num" THEN Num(x.v * n) ELSE NaN
\* JavaScript truthiness of a number-or-NaN
Truthy(x) == x.k = "num" /\ x.v # 0

Min(a, b) == IF a <= b THEN a ELSE b

VARIABLES
  conn,           \* socket id -> "new" | "live" | "rejected" | "closed"
  ipOf,           \* socket id -> source address of the connected sockets
  ipConnections,  \* ip -> Set(socketId); domain = the keys of the Map
  rooms,          \* roomCode -> meta; domain = the keys of the Map
  subs,           \* roomCode -> sockets in the socket.io room `room-${code}`
  rateBuckets,    \* socketId -> { tokens, lastRefill }; domain = keys
  now,            \* Date.now()
  nextSweep,      \* when the setInterval callback is due
  nextCode,       \* number of room codes generated so far
  usage,          \* history: code -> [limit, done] of transfer-complete
  events,         \* history: the client events and clock advances so far
  burst,          \* history: socket id -> [fullAt, n], the rate-limited actions
                  \* of the socket since its bucket was last full
  out             \* the messages and acknowledgement emitted by the last step

vars == <<conn, ipOf, ipConnections, rooms, subs, rateBuckets, now, nextSweep,
          nextCode, usage, events, burst, out>>

\* ---------------------------------------------------------- messages
\* One emitted message: the receiving socket, the event name, and the
\* payload fields code, id (peerId / from) and info (error, reason or data).
Msg(to, event, code, id, info) ==
  [to |-> to, event |-> event, code |-> code, id |-> id, info |-> info]

\* an acknowledgement that reports an error whatever the handler did
Ack_Refusal(s, result, code) == Msg(s, "ack", code, NoId, "rate_limit")

\* cb({ ok: true, ... }) / cb({ ok: false, error })
Ack(s, result, code) == Msg(s, "ack", code, NoId, result)

\* an emit that reaches every connected socket, whatever the channel
Members_Everyone(ch, live, sb) == live

\* The sockets io.to(ch) reaches: ch is a socket id (every socket is alone
\* in the socket.io room named by its id) or a room name `room-${code}`.
\* live is the set of connected sockets, sb the room subscriptions.
Members(ch, live, sb) ==
  IF ch.k = "sock" THEN {r \in live : r = ch.v}
  ELSE IF ch.k = "room" /\ ch.v \in DOMAIN sb THEN sb[ch.v] \cap live
  ELSE {}

SockCh(s) == [k |-> "sock", v |-> s]
RoomName(code) == [k |-> "room", v |-> code]

\* io.to(ch).emit(event, payload)
Emit(ch, event, code, id, info, live, sb) ==
  {Msg(r, event, code, id, info) : r \in Members(ch, live, sb)}

Live == {s \in Sockets : conn[s] = "live"}

\* ------------------------------------------------------- token bucket
BucketOf(s) ==
  IF s \in DOMAIN rateBuckets THEN rateBuckets[s]
  ELSE [tokens |-> MSGS_PER_SECOND * 1000, lastRefill |-> now]

\* a bucket that is never refilled
Refill_Never(b) == b

Refill(b) ==
  IF now - b.lastRefill > 0
  THEN [tokens |-> Min(MSGS_PER_SECOND * 1000,
                       b.tokens + (now - b.lastRefill) * MSGS_PER_SECOND),
        lastRefill |-> now]
  ELSE b

\* bucket.tokens >= 1
HasToken(b) == b.tokens >= 1000

\* the value consumeToken(socketId) returns
ConsumeOk(s) == HasToken(Refill(BucketOf(s)))

\* rateBuckets after consumeToken(socketId)
Consumed(s) ==
  LET b == Refill(BucketOf(s))
      nb == IF HasToken(b) THEN [b EXCEPT !.tokens = b.tokens - 1000] ELSE b
  IN [x \in DOMAIN rateBuckets \cup {s} |-> IF x = s THEN nb ELSE rateBuckets[x]]

\* history: one more rate-limited action of s.  A bucket is full when it is
\* created and when a whole second has passed since its last refill.
Counted(s) ==
  IF s \notin DOMAIN rateBuckets \/ now - rateBuckets[s].lastRefill >= 1000
  THEN [burst EXCEPT ![s] = [fullAt |-> now, n |-> 1]]
  ELSE [burst EXCEPT ![s].n = @ + 1]

\* a delete that leaves the key in the Map
Without_Keeps(f, key) == f

\* Map.delete(key)
Without(f, key) == [x \in DOMAIN f \ {key} |-> f[x]]
\* Map.set(key, value)
With(f, key, value) == [x \in DOMAIN f \cup {key} |-> IF x = key THEN value ELSE f[x]]

\* ------------------------------------------------------ admission
\* an add that forgets the connections the address already has
AddIp_Forgets(ip, s) == With(ipConnections, ip, {s})

AddIp(ip, s) ==
  With(ipConnections, ip,
       (IF ip \in DOMAIN ipConnections THEN ipConnections[ip] ELSE {}) \cup {s})

RemoveIp(ip, s) ==
  IF ip \notin DOMAIN ipConnections THEN ipConnections
  ELSE IF ipConnections[ip] \ {s} = {} THEN Without(ipConnections, ip)
  ELSE With(ipConnections, ip, ipConnections[ip] \ {s})

\* io.on('connection'): the next socket id connects from ip
Connect(s, ip) ==
  /\ conn[s] = "new"
  /\ \A r \in Sockets : r < s => conn[r] # "new"
  /\ ipOf' = [ipOf EXCEPT ![s] = ip]
  /\ ipConnections' = AddIp(ip, s)
  /\ IF Cardinality(AddIp(ip, s)[ip]) > MAX_CONNECTIONS_PER_IP
     THEN /\ conn' = [conn EXCEPT ![s] = "rejected"]
          /\ out' = {Msg(s, "error", NoCode, NoId, "ip_limit")}
     ELSE /\ conn' = [conn EXCEPT ![s] = "live"]
          /\ out' = {}
  /\ UNCHANGED <<rooms, subs, rateBuckets, now, nextSweep, nextCode, usage, events, burst>>

\* one more client event, or one more advance of the clock
ClientEvent == events < MaxEvents /\ events' = events + 1

\* ------------------------------------------------------ create-room
GenToken(code) == code

EffTtlMinutes(opts) == MathMax1(ParseInt(OrDefault(opts.ttlMinutes, 60)))
EffMaxPeers(opts) == MathMax1(ParseInt(OrDefault(opts.maxPeers, 1)))
\* (typeof usageLimit === 'number' && usageLimit > 0) ? Math.floor(usageLimit) : null
EffUsageLeft(opts) ==
  IF opts.usageLimit.k = "num" /\ opts.usageLimit.v > 0 THEN opts.usageLimit ELSE Null

NewMeta(s, code, opts) ==
  [hostSocketId |-> s,
   token |-> GenToken(code),
   peers |-> {},
   createdAt |-> now,
   ttlMs |-> Times(EffTtlMinutes(opts), 60 * 1000),
   maxPeers |-> EffMaxPeers(opts),
   usageLeft |-> EffUsageLeft(opts)]

CreateRoom(s, opts) ==
  /\ conn[s] = "live"
  /\ ClientEvent
  /\ burst' = Counted(s)
  /\ rateBuckets' = Consumed(s)
  /\ IF ~ConsumeOk(s)
     THEN /\ out' = {Ack(s, "rate_limit", NoCode)}
          /\ UNCHANGED <<rooms, subs, nextCode, usage>>
     ELSE /\ nextCode < MaxRooms
          /\ LET code == nextCode + 1 IN
               /\ nextCode' = code
               /\ rooms' = With(rooms, code, NewMeta(s, code, opts))
               /\ subs' = With(subs, code, {s})
               /\ usage' = With(usage, code, [limit |-> EffUsageLeft(opts), done |-> 0])
               /\ out' = {Ack(s, "ok", code)}
  /\ UNCHANGED <<conn, ipOf, ipConnections, now, nextSweep>>

\* -------------------------------------------------------- join-room
\* join-room with the capacity test ahead of the token test
JoinResult_FullFirst(s, code, token) ==
  IF ~ConsumeOk(s) THEN "rate_limit"
  ELSE IF code = NoCode \/ token = 0 THEN "missing_params"
  ELSE IF code \notin DOMAIN rooms THEN "room_not_found"
  ELSE IF Truthy(rooms[code].maxPeers)
          /\ Cardinality(rooms[code].peers) >= rooms[code].maxPeers.v
       THEN "max_peers_reached"
  ELSE IF rooms[code].token # token THEN "invalid_token"
  ELSE "ok"

\* the error join-room answers, "ok" if it admits the requester
JoinResult(s, code, token) ==
  IF ~ConsumeOk(s) THEN "rate_limit"
  ELSE IF code = NoCode \/ token = 0 THEN "missing_params"
  ELSE IF code \notin DOMAIN rooms THEN "room_not_found"
  ELSE IF rooms[code].token # token THEN "invalid_token"
  ELSE IF Truthy(rooms[code].maxPeers)
          /\ Cardinality(rooms[code].peers) >= rooms[code].maxPeers.v
       THEN "max_peers_reached"
  ELSE "ok"

JoinRoom(s, code, token) ==
  /\ conn[s] = "live"
  /\ ClientEvent
  /\ burst' = Counted(s)
  /\ rateBuckets' = Consumed(s)
  /\ IF JoinResult(s, code, token) = "ok"
     THEN /\ rooms' = [rooms EXCEPT ![code].peers = @ \cup {s}]
          /\ subs' = [subs EXCEPT ![code] = @ \cup {s}]
          /\ out' = Emit(SockCh(rooms[code].hostSocketId), "peer-joined", code, s, "",
                         Live, subs')
                    \cup {Ack(s, "ok", NoCode)}
     ELSE /\ out' = {Ack(s, JoinResult(s, code, token), NoCode)}
          /\ UNCHANGED <<rooms, subs>>
  /\ UNCHANGED <<conn, ipOf, ipConnections, now, nextSweep, nextCode, usage>>

\* ----------------------------------------------------------- signal
\* a relay that only looks the room up
IsMember_AnyRoom(s, code) == code \in DOMAIN rooms

\* whether the signal handler reaches the relay
IsMember(s, code) ==
  /\ code \in DOMAIN rooms
  /\ (rooms[code].hostSocketId = s \/ s \in rooms[code].peers)

\* a relay that trusts the sender id of the payload
SignalFrom_Claimed(s, claimed) == claimed

\* { from: socket.id, data }
SignalFrom(s, claimed) == s

\* the sockets a relayed signal is emitted to
SignalTargets(s, code, to) ==
  IF to.k # "absent" THEN Members(to, Live, subs)
  ELSE Members(RoomName(code), Live, subs) \ {s}

Signal(s, code, to, claimed) ==
  /\ conn[s] = "live"
  /\ ClientEvent
  /\ burst' = Counted(s)
  /\ rateBuckets' = Consumed(s)
  /\ out' = IF ~ConsumeOk(s) THEN {Msg(s, "error", NoCode, NoId, "rate_limit")}
            ELSE IF code = NoCode \/ ~IsMember(s, code) THEN {}
            ELSE {Msg(r, "signal", NoCode, SignalFrom(s, claimed), "data") :
                    r \in SignalTargets(s, code, to)}
  /\ UNCHANGED <<conn, ipOf, ipConnections, rooms, subs, now, nextSweep, nextCode, usage>>

\* ------------------------------------------------ transfer-complete
\* a counter decremented by two
Decrement_ByTwo(u) == IF u.v - 2 < 0 THEN Num(0) ELSE Num(u.v - 2)

\* Math.max(0, usageLeft - 1)
Decrement(u) == IF u.v - 1 < 0 THEN Num(0) ELSE Num(u.v - 1)

TransferComplete(s, code) ==
  /\ conn[s] = "live"
  /\ ClientEvent
  /\ IF code \in DOMAIN rooms /\ IsNum(rooms[code].usageLeft)
     THEN /\ usage' = [usage EXCEPT ![code].done = @ + 1]
          /\ IF Decrement(rooms[code].usageLeft).v = 0
             THEN /\ out' = Emit(RoomName(code), "room-expired", code, NoId,
                                 "usage_exhausted", Live, subs)
                  /\ rooms' = Without(rooms, code)
             ELSE /\ out' = {}
                  /\ rooms' = [rooms EXCEPT ![code].usageLeft = Decrement(@)]
     ELSE /\ out' = {}
          /\ UNCHANGED <<rooms, usage>>
  /\ UNCHANGED <<conn, ipOf, ipConnections, subs, rateBuckets, now, nextSweep, nextCode, burst>>

\* ------------------------------------------------------- leave-room
\* which branch of the leave-room handler runs: "peer", "host" or "none"
LeaveBranch(s, code) ==
  IF code \notin DOMAIN rooms THEN "none"
  ELSE IF s \in rooms[code].peers THEN "peer"
  ELSE IF rooms[code].hostSocketId = s THEN "host"
  ELSE "none"

\* what the peer branch of leave-room emits
LeavePeerOut(s, code) == {}

LeaveRoom(s, code) ==
  /\ conn[s] = "live"
  /\ ClientEvent
  /\ IF LeaveBranch(s, code) = "peer"
     THEN /\ rooms' = [rooms EXCEPT ![code].peers = @ \ {s}]
          /\ subs' = [subs EXCEPT ![code] = @ \ {s}]
          /\ out' = LeavePeerOut(s, code)
     ELSE IF LeaveBranch(s, code) = "host"
     THEN /\ out' = Emit(RoomName(code), "host-left", code, NoId, "", Live, subs)
          /\ rooms' = Without(rooms, code)
          /\ UNCHANGED subs
     ELSE /\ out' = {}
          /\ UNCHANGED <<rooms, subs>>
  /\ UNCHANGED <<conn, ipOf, ipConnections, rateBuckets, now, nextSweep, nextCode, usage, burst>>

\* ------------------------------------------------------- disconnect
\* The disconnect handler run for socket s, which socket.io has already
\* taken out of every room: live and sb are the sockets and subscriptions
\* without s.
HostedBy(s) == {c \in DOMAIN rooms : rooms[c].hostSocketId = s}
PeerOnlyIn(s) == {c \in DOMAIN rooms : rooms[c].hostSocketId # s /\ s \in rooms[c].peers}

\* a disconnect loop that tells nobody of the host's departure
DisconnectHostOut_Silent(s, live, sb) == {}

\* what the disconnect loop emits for the rooms s hosts
DisconnectHostOut(s, live, sb) ==
  UNION {Emit(RoomName(c), "host-left", c, NoId, "", live, sb) : c \in HostedBy(s)}

\* what the disconnect loop emits for the rooms s is a peer of
DisconnectPeerOut(s, live, sb) ==
  UNION {Emit(SockCh(rooms[c].hostSocketId), "peer-left", c, s, "", live, sb) :
           c \in PeerOnlyIn(s)}

\* a disconnect loop that deletes the hosted rooms and forgets the peer sets
DisconnectRooms_KeepsPeers(s) == [c \in DOMAIN rooms \ HostedBy(s) |-> rooms[c]]

\* rooms after the disconnect loop
DisconnectRooms(s) ==
  [c \in DOMAIN rooms \ HostedBy(s) |-> [rooms[c] EXCEPT !.peers = @ \ {s}]]

DisconnectHandler(s, live, sb) ==
  /\ ipConnections' = RemoveIp(ipOf[s], s)
  /\ out' = DisconnectHostOut(s, live, sb) \cup DisconnectPeerOut(s, live, sb)
  /\ rooms' = DisconnectRooms(s)
  /\ rateBuckets' = Without(rateBuckets, s)

Disconnect(s) ==
  /\ conn[s] = "live"
  /\ ClientEvent
  /\ conn' = [conn EXCEPT ![s] = "closed"]
  /\ subs' = [c \in DOMAIN subs |-> subs[c] \ {s}]
  /\ DisconnectHandler(s, Live \ {s}, subs')
  /\ UNCHANGED <<ipOf, now, nextSweep, nextCode, usage, burst>>

\* the disconnect handler applied a second time for the same socket id
DisconnectAgain(s) ==
  /\ conn[s] = "closed"
  /\ ClientEvent
  /\ DisconnectHandler(s, Live, subs)
  /\ UNCHANGED <<conn, ipOf, subs, now, nextSweep, nextCode, usage, burst>>

\* ------------------------------------------------------------ sweep
\* a room expired only once its time to live is exceeded
Expired_Strict(meta, t) == Truthy(meta.ttlMs) /\ meta.createdAt + meta.ttlMs.v < t

\* meta.ttlMs && (meta.createdAt + meta.ttlMs) <= now
Expired(meta, t) == Truthy(meta.ttlMs) /\ meta.createdAt + meta.ttlMs.v <= t

Swept == {c \in DOMAIN rooms : Expired(rooms[c], now)}

Sweep ==
  /\ now = nextSweep
  /\ nextSweep' = now + CLEAN_INTERVAL_MS
  /\ out' = UNION {Emit(RoomName(c), "room-expired", c, NoId, "ttl", Live, subs) :
                     c \in Swept}
  /\ rooms' = [c \in DOMAIN rooms \ Swept |-> rooms[c]]
  /\ UNCHANGED <<conn, ipOf, ipConnections, subs, rateBuckets, now, nextCode, usage, events, burst>>

\* ------------------------------------------------------------- time
\* the time one token takes to refill, rounded up to a millisecond
RefillMs == (1000 + MSGS_PER_SECOND - 1) \div MSGS_PER_SECOND
\* the clock advances by half the refill time of a token, or by all of it,
\* to a time before the sweeper is due
FineDeltas == {RefillMs \div 2, RefillMs}

Advance(d) ==
  /\ ClientEvent
  /\ now + d < nextSweep
  /\ now' = now + d
  /\ UNCHANGED <<conn, ipOf, ipConnections, rooms, subs, rateBuckets, nextSweep,
                 nextCode, usage, burst, out>>

\* the clock advances to the time the sweeper is due
AdvanceToSweep ==
  /\ ClientEvent
  /\ now < nextSweep
  /\ now' = nextSweep
  /\ UNCHANGED <<conn, ipOf, ipConnections, rooms, subs, rateBuckets, nextSweep,
                 nextCode, usage, burst, out>>

\* ----------------------------------------------------- inputs
\* create-room payloads: no option given; numeric options; options that
\* are no numbers
Options ==
  {[ttlMinutes |-> Absent, maxPeers |-> Absent, usageLimit |-> Absent],
   [ttlMinutes |-> Num(1), maxPeers |-> Num(2), usageLimit |-> Num(2)],
   [ttlMinutes |-> Junk, maxPeers |-> Junk, usageLimit |-> Num(1)]}
\* the address each socket connects from: never more than
\* MAX_CONNECTIONS_PER_IP sockets of one address
HomeIp(s) == IF s % 2 = 1 THEN "ipA" ELSE "ipB"
\* join-room codes: a code genCode may return, or none
CodeInputs == Codes \cup {NoCode}
TokenInputs == 0..MaxRooms
\* the sender id a client puts in its own payload: another socket's
ClaimedInputs(s) == {(s % MaxSockets) + 1}
ToInputs == {Absent} \cup {SockCh(s) : s \in Sockets} \cup {RoomName(c) : c \in Codes}

Init ==
  /\ conn = [s \in Sockets |-> "new"]
  /\ ipOf = [s \in Sockets |-> "ipA"]
  /\ ipConnections = <<>>
  /\ rooms = <<>>
  /\ subs = <<>>
  /\ rateBuckets = <<>>
  /\ now = 0
  /\ nextSweep = CLEAN_INTERVAL_MS
  /\ nextCode = 0
  /\ usage = <<>>
  /\ events = 0
  /\ burst = [s \in Sockets |-> [fullAt |-> 0, n |-> 0]]
  /\ out = {}

\* the sockets that connect while the clock runs
PairSockets == {1, 2}

\* the whole server, the clock and the sweeper running
Next ==
  \/ \E s \in PairSockets : Connect(s, HomeIp(s))
  \/ \E s \in Sockets, opts \in Options : CreateRoom(s, opts)
  \/ \E s \in Sockets, code \in CodeInputs, token \in TokenInputs : JoinRoom(s, code, token)
  \/ \E s \in Sockets, code \in Codes, to \in ToInputs :
       \E claimed \in ClaimedInputs(s) : Signal(s, code, to, claimed)
  \/ \E s \in Sockets, code \in Codes : TransferComplete(s, code)
  \/ \E s \in Sockets, code \in Codes : LeaveRoom(s, code)
  \/ \E s \in Sockets : Disconnect(s)
  \/ \E s \in Sockets : DisconnectAgain(s)
  \/ Sweep
  \/ \E d \in FineDeltas : Advance(d)
  \/ AdvanceToSweep

Spec == Init /\ [][Next]_vars

\* every socket connected, all client events within one millisecond
NextRooms ==
  \/ \E s \in Sockets : Connect(s, HomeIp(s))
  \/ \E s \in Sockets, opts \in Options : CreateRoom(s, opts)
  \/ \E s \in Sockets, code \in CodeInputs, token \in TokenInputs : JoinRoom(s, code, token)
  \/ \E s \in Sockets, code \in Codes, to \in ToInputs :
       \E claimed \in ClaimedInputs(s) : Signal(s, code, to, claimed)
  \/ \E s \in Sockets, code \in Codes : TransferComplete(s, code)
  \/ \E s \in Sockets, code \in Codes : LeaveRoom(s, code)
  \/ \E s \in Sockets : Disconnect(s)
  \/ \E s \in Sockets : DisconnectAgain(s)

SpecRooms == Init /\ [][NextRooms]_vars

\* the source addresses of the connecting sockets
Ips == {"ipA", "ipB"}

\* admission: every socket connects from either address
NextAdmit ==
  \/ \E s \in Sockets, ip \in Ips : Connect(s, ip)
  \/ \E s \in Sockets, opts \in Options : CreateRoom(s, opts)
  \/ \E s \in Sockets, code \in CodeInputs, token \in TokenInputs : JoinRoom(s, code, token)
  \/ \E s \in Sockets : Disconnect(s)
  \/ \E s \in Sockets : DisconnectAgain(s)

SpecAdmit == Init /\ [][NextAdmit]_vars

TypeOK ==
  /\ DOMAIN rooms \subseteq Codes
  /\ DOMAIN subs \subseteq Codes
  /\ DOMAIN rateBuckets \subseteq Sockets
  /\ events \in 0..MaxEvents

\* ============================================================ claims
\* the rooms ever created: every code genCode has returned
Created == DOMAIN usage
\* the rooms created and since removed from the registry
Destroyed == Created \ DOMAIN rooms
\* the rooms that have received as many transfer-complete events as their
\* usageLimit
Exhausted ==
  {c \in Created : IsNum(usage[c].limit) /\ usage[c].done >= usage[c].limit.v}
\* this step is a rate-limited action of s (create-room, join-room or signal)
Acts(s) == burst'[s] # burst[s]
\* s is answered rate_limit by the last step
RateLimited(s) == \E m \in out : m.to = s /\ m.info = "rate_limit"

\* C1: every room of the registry has between 0 and maxPeers members, maxPeers
\* being the number stored at creation (n <= NaN is false).
C1_PeersWithinMax ==
  \A c \in DOMAIN rooms :
    /\ IsNum(rooms[c].maxPeers)
    /\ Cardinality(rooms[c].peers) <= rooms[c].maxPeers.v

\* C2 as stated: a join-room with the code of a registered room and another
\* token than the room's is answered invalid_token, whoever sends it, and
\* the registry is left as it was.
C2_WrongTokenAlwaysInvalid ==
  [][\A s \in Sockets : Acts(s) => \A c \in DOMAIN rooms, tk \in TokenInputs \ {0} :
       (tk # rooms[c].token /\ JoinRoom(s, c, tk))
       => (out' = {Ack(s, "invalid_token", NoCode)} /\ rooms' = rooms)]_vars

\* C2 amended: such a join-room is answered invalid_token when the sender's
\* bucket grants a token and rate_limit when it does not; in both cases
\* nobody else is notified and the peer sets and subscriptions stay as they
\* were.
C2_WrongTokenRejected ==
  [][\A s \in Sockets : Acts(s) => \A c \in DOMAIN rooms, tk \in TokenInputs \ {0} :
       (tk # rooms[c].token /\ JoinRoom(s, c, tk))
       => /\ out' = {Ack(s, IF ConsumeOk(s) THEN "invalid_token" ELSE "rate_limit", NoCode)}
          /\ rooms' = rooms
          /\ subs' = subs]_vars

\* C2 witness: a full room, and a join-room just answered invalid_token
C2_Witness ==
  \E s \in Sockets, c \in DOMAIN rooms :
    /\ out = {Ack(s, "invalid_token", NoCode)}
    /\ IsNum(rooms[c].maxPeers)
    /\ Cardinality(rooms[c].peers) = rooms[c].maxPeers.v
    /\ s \notin rooms[c].peers
    /\ s # rooms[c].hostSocketId

\* C3 as stated: a room created with usageLimit N stays registered through
\* N-1 transfer-complete events and the N-th removes it and broadcasts
\* room-expired / usage_exhausted on the room's channel; every later join-room with its code is
\* answered room_not_found.
C3_UsageExhaustedThenNotFound ==
  [][/\ \A c \in DOMAIN rooms' :
          IsNum(usage'[c].limit) =>
            /\ usage'[c].done < usage'[c].limit.v
            /\ rooms'[c].usageLeft = Num(usage'[c].limit.v - usage'[c].done)
     /\ \A s \in Sockets, c \in DOMAIN rooms :
          (IsNum(usage[c].limit) /\ usage[c].done + 1 < usage[c].limit.v
             /\ TransferComplete(s, c))
          => (c \in DOMAIN rooms' /\ out' = {})
     /\ \A s \in Sockets, c \in DOMAIN rooms :
          (IsNum(usage[c].limit) /\ usage[c].done + 1 = usage[c].limit.v
             /\ TransferComplete(s, c))
          => /\ c \notin DOMAIN rooms'
             /\ out' = {Msg(m, "room-expired", c, NoId, "usage_exhausted") :
                          m \in subs[c]}
     /\ \A s \in Sockets : Acts(s) => \A c \in Exhausted, tk \in TokenInputs \ {0} :
          JoinRoom(s, c, tk)
          => (out' = {Ack(s, "room_not_found", NoCode)} /\ rooms' = rooms)]_vars

\* C3 amended: the same, the later join-room being answered room_not_found
\* when the sender's bucket grants a token and rate_limit when it does not,
\* and never admitted.
C3_UsageExhaustedThenRefused ==
  [][/\ \A c \in DOMAIN rooms' :
          IsNum(usage'[c].limit) =>
            /\ usage'[c].done < usage'[c].limit.v
            /\ rooms'[c].usageLeft = Num(usage'[c].limit.v - usage'[c].done)
     /\ \A s \in Sockets, c \in DOMAIN rooms :
          (IsNum(usage[c].limit) /\ usage[c].done + 1 < usage[c].limit.v
             /\ TransferComplete(s, c))
          => (c \in DOMAIN rooms' /\ out' = {})
     /\ \A s \in Sockets, c \in DOMAIN rooms :
          (IsNum(usage[c].limit) /\ usage[c].done + 1 = usage[c].limit.v
             /\ TransferComplete(s, c))
          => /\ c \notin DOMAIN rooms'
             /\ out' = {Msg(m, "room-expired", c, NoId, "usage_exhausted") :
                          m \in subs[c]}
     /\ \A s \in Sockets : Acts(s) => \A c \in Exhausted, tk \in TokenInputs \ {0} :
          JoinRoom(s, c, tk)
          => /\ out' = {Ack(s, IF ConsumeOk(s) THEN "room_not_found" ELSE "rate_limit", NoCode)}
             /\ rooms' = rooms
             /\ subs' = subs]_vars

\* C3 witness: a room created with usageLimit 2 is gone after its second
\* transfer-complete, and a join-room was just answered room_not_found
C3_Witness ==
  \E s \in Sockets, c \in Exhausted \ DOMAIN rooms :
    /\ usage[c].limit = Num(2)
    /\ out = {Ack(s, "room_not_found", NoCode)}

\* the time to live of a room has elapsed at time t (n <= NaN is false)
Elapsed(meta, t) == IsNum(meta.ttlMs) /\ meta.createdAt + meta.ttlMs.v <= t

\* C4: a run of the sweeper at time now removes every room with
\* createdAt + ttl <= now and no other room, and it runs whenever it is due,
\* whatever the clients do.
C4_SweepRemovesElapsed ==
  [][/\ nextSweep' # nextSweep =>
          /\ DOMAIN rooms' = {c \in DOMAIN rooms : ~Elapsed(rooms[c], now)}
          /\ \A c \in DOMAIN rooms' : rooms'[c] = rooms[c]
     /\ now = nextSweep => ENABLED Sweep]_vars

\* C4 witness: the sweeper has just removed a room and left a younger one
C4_Witness ==
  /\ \E m \in out : m.event = "room-expired" /\ m.info = "ttl"
  /\ \E c \in DOMAIN rooms : IsNum(rooms[c].ttlMs) /\ rooms[c].createdAt > 0
  /\ now = nextSweep - CLEAN_INTERVAL_MS

\* C5: when the host of a room disconnects, every connection of the room's
\* peer set that is still connected is sent host-left for its code and the
\* room leaves the registry; a room that has
\* left the registry never returns; the disconnect handler run a second time
\* for the same socket changes nothing and emits nothing.
C5_HostDisconnect ==
  [][/\ \A s \in Sockets, c \in DOMAIN rooms :
          (conn[s] = "live" /\ conn'[s] = "closed" /\ rooms[c].hostSocketId = s)
          => /\ c \notin DOMAIN rooms'
             /\ \A p \in rooms[c].peers \ {s} :
                  Msg(p, "host-left", c, NoId, "") \in out'
     /\ \A c \in Destroyed : c \notin DOMAIN rooms'
     /\ \A s \in Sockets :
          DisconnectAgain(s)
          => /\ out' = {}
             /\ UNCHANGED <<conn, ipConnections, rooms, subs, rateBuckets>>]_vars

\* C5 witness: a host has disconnected and its peer was just sent host-left
C5_Witness ==
  \E s \in Sockets, m \in out :
    /\ conn[s] = "closed"
    /\ m.event = "host-left"
    /\ m.to # s
    /\ m.code \in Destroyed

\* C6: counted from a full bucket with no time passing, the first
\* MSGS_PER_SECOND rate-limited actions of a socket are accepted and the next
\* is answered rate_limit; a rate-limited action that comes at least the refill
\* time of one token after the socket's previous one is accepted.
C6_BurstThenRefill ==
  [][\A s \in Sockets :
       burst'[s] # burst[s] =>
         /\ burst'[s].fullAt = now =>
              (RateLimited(s)' <=> burst'[s].n > MSGS_PER_SECOND)
         /\ (s \in DOMAIN rateBuckets /\ now - rateBuckets[s].lastRefill >= RefillMs)
              => ~RateLimited(s)']_vars

\* C6 witness: a socket that had spent its bucket was accepted again after
\* the refill time of one token
C6_Witness ==
  \E s \in DOMAIN rateBuckets :
    /\ burst[s].n = MSGS_PER_SECOND + 1
    /\ burst[s].fullAt + RefillMs = now
    /\ rateBuckets[s].lastRefill = now
    /\ ~RateLimited(s)
    /\ \E m \in out : m.to = s

\* s is the host or a peer of room c
Member(s, c) ==
  c \in DOMAIN rooms /\ (rooms[c].hostSocketId = s \/ s \in rooms[c].peers)

\* C7: a signal of a room member that names a target socket is emitted to
\* that socket alone, with the sender's own socket id as from, whatever id
\* the payload claims; it reaches a connected target whenever the sender's
\* bucket grants a token.
C7_TargetedSignal ==
  [][\A s \in Sockets : Acts(s) => \A c \in Codes : Member(s, c) =>
     \A r \in Sockets, claimed \in ClaimedInputs(s) :
       Signal(s, c, SockCh(r), claimed)
       => /\ \A m \in out' : m.event = "signal" => (m.to = r /\ m.id = s)
          /\ (ConsumeOk(s) /\ conn[r] = "live")
               => Msg(r, "signal", NoCode, s, "data") \in out']_vars

\* C7 witness: in a room of three, one member's signal has just reached its
\* target alone
C7_Witness ==
  \E c \in DOMAIN rooms, s \in Sockets, r \in Sockets :
    /\ Cardinality({rooms[c].hostSocketId} \cup rooms[c].peers) = 3
    /\ s # r
    /\ out = {Msg(r, "signal", NoCode, s, "data")}

\* C8: a signal of a socket that is neither host nor peer of the room its
\* code names, the room being registered or not, is relayed to nobody, is
\* answered with nothing about membership, and leaves the rooms as they were.
C8_NonMemberSignalDropped ==
  [][\A s \in Sockets :
       (/\ Acts(s)
        /\ \E c \in Codes : /\ ~Member(s, c)
                            /\ \E to \in ToInputs, claimed \in ClaimedInputs(s) :
                                 Signal(s, c, to, claimed))
       => /\ out' \subseteq {Msg(s, "error", NoCode, NoId, "rate_limit")}
          /\ UNCHANGED <<rooms, subs, usage>>]_vars

\* C8 witness: a socket that is no member of a registered room with a
\* connected host, and hosts none, has spent its tokens, and the last step
\* emitted nothing
C8_Witness ==
  \E s \in DOMAIN rateBuckets, c \in DOMAIN rooms :
    /\ ~Member(s, c)
    /\ \A d \in DOMAIN rooms : rooms[d].hostSocketId # s
    /\ conn[rooms[c].hostSocketId] = "live"
    /\ rateBuckets[s].tokens = 0
    /\ out = {}

\* C9: a leave-room of the host of a room emits host-left to every member
\* of the room and removes the room in the same step.
C9_HostLeaveClosesRoom ==
  [][\A s \in Sockets, c \in DOMAIN rooms :
       (rooms[c].hostSocketId = s /\ LeaveRoom(s, c))
       => /\ c \notin DOMAIN rooms'
          /\ \A m \in {s} \cup rooms[c].peers :
               Msg(m, "host-left", c, NoId, "") \in out']_vars

\* C10: a peer that departs a room, by leave-room or by disconnect, leaves
\* the peer set and the room's channel, and the host is sent peer-left with
\* the peer's id and the room's code.
C10_PeerDepartureNotifiesHost ==
  [][\A s \in Sockets, c \in DOMAIN rooms :
       (/\ s \in rooms[c].peers
        /\ rooms[c].hostSocketId # s
        /\ LeaveRoom(s, c) \/ (conn[s] = "live" /\ conn'[s] = "closed"))
       => /\ s \notin rooms'[c].peers
          /\ s \notin subs'[c]
          /\ Msg(rooms[c].hostSocketId, "peer-left", c, s, "") \in out']_vars

\* C11: every room keeps the host it was created with, and the host of a
\* room is never an element of the room's peer set.
C11_HostFixedAndNoPeer ==
  [][\A c \in DOMAIN rooms' :
       /\ rooms'[c].hostSocketId \notin rooms'[c].peers
       /\ c \in DOMAIN rooms => rooms'[c].hostSocketId = rooms[c].hostSocketId]_vars

\* C12: a join-room that is admitted adds the requester to the room's peer
\* set and to the room channel and is announced with one peer-joined, to the
\* room's host and nobody else; a step that admits nobody emits no
\* peer-joined.
C12_JoinAnnouncedToHostOnly ==
  [][/\ \A s \in Sockets : Acts(s) =>
          \A c \in DOMAIN rooms, tk \in TokenInputs :
            (JoinResult(s, c, tk) = "ok" /\ JoinRoom(s, c, tk))
            => /\ rooms'[c].peers = rooms[c].peers \cup {s}
               /\ subs'[c] = subs[c] \cup {s}
               /\ {m \in out' : m.event = "peer-joined"}
                    = {Msg(rooms[c].hostSocketId, "peer-joined", c, s, "")}
     /\ (\E m \in out' : m.event = "peer-joined")
          => \E s \in Sockets : Ack(s, "ok", NoCode) \in out']_vars

\* C12 witness: a second peer was just admitted to a room, and of the three
\* connections in the room only the host was sent peer-joined
C12_Witness ==
  \E c \in DOMAIN rooms, s \in Sockets :
    /\ s \in rooms[c].peers
    /\ Cardinality(rooms[c].peers \ {rooms[c].hostSocketId}) = 2
    /\ subs[c] = {rooms[c].hostSocketId} \cup rooms[c].peers
    /\ Ack(s, "ok", NoCode) \in out
    /\ {m \in out : m.event = "peer-joined"}
         = {Msg(rooms[c].hostSocketId, "peer-joined", c, s, "")}

\* the notifications that end a room
Terminal == {"host-left", "room-expired"}

\* C13: a room leaves the registry at most once: once removed it never
\* returns.  A terminal notification (host-left or room-expired) for a code
\* is emitted only by the step that removes that room, at most one to each
\* connection.  No peer-joined or peer-left is emitted for a code that is
\* not registered, and a signal event that names a removed room is relayed
\* to nobody.  (A step that only advances the clock emits nothing.)
C13_DestroyedOnceAndSilent ==
  [][/\ \A c \in Destroyed : c \notin DOMAIN rooms'
     /\ \A m \in (IF now' = now THEN out' ELSE {}) :
          m.event \in Terminal
          => /\ m.code \in DOMAIN rooms
             /\ m.code \notin DOMAIN rooms'
             /\ \A n \in out' :
                  (n.event \in Terminal /\ n.code = m.code /\ n.to = m.to) => n = m
     /\ \A m \in (IF now' = now THEN out' ELSE {}) :
          m.event \in {"peer-joined", "peer-left"}
          => (m.code \in DOMAIN rooms /\ m.code \notin Destroyed)
     /\ \A s \in Sockets :
          (/\ Acts(s)
           /\ \E c \in Destroyed, to \in ToInputs, claimed \in ClaimedInputs(s) :
                Signal(s, c, to, claimed))
          => \A m \in out' : m.event # "signal"]_vars

\* C13 witness: a room was removed by the sweeper, and a join-room for its
\* code was just refused
C13_Witness ==
  \E c \in Destroyed, s \in Sockets :
    /\ now >= 2 * CLEAN_INTERVAL_MS
    /\ usage[c].limit = Num(2)
    /\ usage[c].done = 0
    /\ out = {Ack(s, "room_not_found", NoCode)}

\* the connected sockets of address ip
LiveAt(ip) == {s \in Live : ipOf[s] = ip}

\* C14: the connection set of every address is the set of its connected
\* sockets, and an address with no connected socket has no entry; so the id
\* of a connection that has ended, by a disconnect or by a rejection at
\* admission, is in no set.
C14_IpSetsAreLiveSets ==
  \A ip \in Ips :
    IF LiveAt(ip) = {} THEN ip \notin DOMAIN ipConnections
    ELSE ip \in DOMAIN ipConnections /\ ipConnections[ip] = LiveAt(ip)

\* C18: no address has more than MAX_CONNECTIONS_PER_IP sockets that were
\* admitted and have not disconnected.
C18_LiveWithinCap ==
  \A ip \in Ips : Cardinality(LiveAt(ip)) <= MAX_CONNECTIONS_PER_IP

\* C18 witness: an address holds as many connected sockets as the cap
\* allows, and a further socket of that address was just rejected
C18_Witness ==
  \E ip \in Ips, s \in Sockets :
    /\ Cardinality(LiveAt(ip)) = MAX_CONNECTIONS_PER_IP
    /\ conn[s] = "rejected"
    /\ ipOf[s] = ip
    /\ out = {Msg(s, "error", NoCode, NoId, "ip_limit")}

\* C15: a socket whose disconnect has been handled is the host of no room of
\* the registry, is in no peer set, and has no rate bucket.
C15_DisconnectedLeavesNothing ==
  \A s \in Sockets :
    conn[s] = "closed"
    => /\ s \notin DOMAIN rateBuckets
       /\ \A c \in DOMAIN rooms :
            rooms[c].hostSocketId # s /\ s \notin rooms[c].peers

\* C15 witness: a socket that hosted one room and was a peer of another has
\* just disconnected: its own room is gone and the other host was told
C15_Witness ==
  \E s \in Sockets, c \in DOMAIN rooms, d \in Destroyed :
    /\ conn[s] = "closed"
    /\ Msg(rooms[c].hostSocketId, "peer-left", c, s, "") \in out
    /\ usage[d].done = 0

\* the errors create-room and join-room answer
Refusals ==
  {"rate_limit", "missing_params", "room_not_found", "invalid_token",
   "max_peers_reached"}

\* C16: a create-room or join-room answered with an error adds and removes
\* no room, changes no room's fields, peer set or channel subscriptions, and
\* sends nothing to any connection but the requester.
C16_RefusalChangesNothing ==
  [][\A s \in Sockets :
       (Acts(s) /\ \E m \in out' : m.to = s /\ m.event = "ack" /\ m.info \in Refusals)
       => /\ UNCHANGED <<rooms, subs, nextCode, usage>>
          /\ \A m \in out' : m.to = s]_vars

\* C16 witness: a join-room was just refused by a full room, which keeps
\* its peers
C16_Witness ==
  \E s \in Sockets, c \in DOMAIN rooms :
    /\ out = {Ack(s, "max_peers_reached", NoCode)}
    /\ s \notin rooms[c].peers
    /\ rooms[c].peers # {}

\* C17: once leave-room has been handled for a connection and a room, or the
\* connection's disconnect has been handled, the leave-room handler run again
\* for that connection and room takes no branch, and the disconnect handler
\* finds nothing of that connection in the room: neither changes the
\* registry or emits anything.
C17_LeaveIdempotent ==
  [][\A s \in Sockets, c \in Codes :
       (LeaveRoom(s, c) \/ (conn[s] = "live" /\ conn'[s] = "closed"))
       => /\ LeaveBranch(s, c)' = "none"
          /\ c \notin HostedBy(s)'
          /\ c \notin PeerOnlyIn(s)']_vars

\* C19: for every room of the registry, the sockets subscribed to the room's
\* channel are the host and the peers; the host of a registered room is
\* always subscribed.
C19_SubscribersAreMembers ==
  \A c \in DOMAIN rooms :
    /\ c \in DOMAIN subs
    /\ subs[c] = {rooms[c].hostSocketId} \cup rooms[c].peers

\* the ids the host of room c is told of by the messages of set ms
Announced(ms, c, event) ==
  {m.id : m \in {x \in ms : /\ x.to = rooms[c].hostSocketId
                            /\ x.event = event
                            /\ x.code = c}}

\* C20: the host's view of a room follows the room's peer set: every step
\* that leaves the room registered announces to the host, by peer-joined,
\* exactly the sockets the step adds to the peer set and, by peer-left,
\* exactly the sockets it removes; so each membership is announced once and
\* the announced ids not yet followed by a peer-left are the peer set.
C20_HostViewFollowsPeers ==
  [][\A c \in DOMAIN rooms \cap DOMAIN rooms' :
       /\ Announced(out', c, "peer-joined") = rooms'[c].peers \ rooms[c].peers
       /\ Announced(out', c, "peer-left") = rooms[c].peers \ rooms'[c].peers]_vars

\* this step is the handling of an event that socket s sends
SentBy(s) ==
  \/ Acts(s)
  \/ \E d \in Codes : TransferComplete(s, d) \/ LeaveRoom(s, d)

\* C21: an event sent by a socket that is neither the host nor a peer of a
\* registered room leaves that room in the registry with its usage counter
\* as it was.
C21_OutsiderCannotSpendOrClose ==
  [][\A s \in Sockets, c \in DOMAIN rooms :
       (~Member(s, c) /\ SentBy(s))
       => /\ c \in DOMAIN rooms'
          /\ rooms'[c].usageLeft = rooms[c].usageLeft]_vars

\* C22: the signal messages emitted when a signal event of a socket names
\* room c are received only by the host and the peers of room c.
C22_SignalStaysInRoom ==
  [][\A s \in Sockets : Acts(s) =>
       \A c \in DOMAIN rooms, to \in ToInputs, claimed \in ClaimedInputs(s) :
         Signal(s, c, to, claimed)
         => \A m \in out' : m.event = "signal" => Member(m.to, c)]_vars

====
